---- MODULE Spec2Model ----
(***************************************************************************)
(* Resumable batch scripts of auto-llm-empathy:                            *)
(*   "ac"     auto-classify.py                    (numeric ratings)        *)
(*   "tr"     auto-classify-transcripts-gpt4o.py  (transcript labels)      *)
(*   "wav"    auto-classify-wavs.py, auto-classify-wavs-gemini.py         *)
(*            (audio-direct; the two main() functions are the same)        *)
(*   "ext"    extractor.py                        (feature extraction)     *)
(* Beside the batch runs (Spec) the module has the label comparison of the *)
(* transcript and audio-direct scripts (SpecMatch), analyze.py             *)
(* (SpecAnalyze), the timestamp conversion and formatting (SpecCodec) and   *)
(* the parsing of the audio model's answer (SpecParse).                    *)
(* Text is modelled as sequences of character codes, the output artifact   *)
(* as the sequence of lines on disk plus the lines still held in the file  *)
(* object's write buffer.                                                  *)
(***************************************************************************)
EXTENDS Integers, Sequences, FiniteSets, TLC

\* ---------------------------------------------------------------- bounds
MaxSegs == 2
MaxRuns == 2

\* ------------------------------------------------------------ characters
Colon == 58
Dash == 45
Under == 95
IsDigit(c) == c >= 48 /\ c <= 57
IsIdChar(c) ==
  \/ c = Dash
  \/ c = Under
  \/ IsDigit(c)
  \/ (c >= 65 /\ c <= 90)
  \/ (c >= 97 /\ c <= 122)
DotWav == <<46, 119, 97, 118>>

\* ------------------------------------------------------ the segment table
\* "a"
VideoIDs == { <<97>> }
\* "0:05", "0:5" and the malformed "5"
StartStrs == { <<48, 58, 48, 53>>, <<48, 58, 53>>, <<53>> }
\* "0:10"
EndStrs == { <<48, 58, 49, 48>> }
Segments == [videoID : VideoIDs, start : StartStrs, end : EndStrs]
Tables == UNION { [1..n -> Segments] : n \in 1..MaxSegs }

Scripts == {"ac", "tr", "wav", "ext"}
IsWav(s) == s = "wav"

\* ---------------------------------------------------------------- helpers
RECURSIVE SeqLess(_, _)
\* Python's str ordering: code point by code point, a proper prefix first
SeqLess(a, b) ==
  IF b = <<>> THEN FALSE
  ELSE IF a = <<>> THEN TRUE
  ELSE IF Head(a) # Head(b) THEN Head(a) < Head(b)
  ELSE SeqLess(Tail(a), Tail(b))

RECURSIVE SortedSeqDesc(_)
\* faulty variant of SortedSeq: descending order
SortedSeqDesc(S) ==
  IF S = {} THEN <<>>
  ELSE LET m == CHOOSE x \in S : \A y \in S \ {x} : SeqLess(y, x)
       IN <<m>> \o SortedSeqDesc(S \ {m})

RECURSIVE SortedSeq(_)
SortedSeq(S) ==
  IF S = {} THEN <<>>
  ELSE LET m == CHOOSE x \in S : \A y \in S \ {x} : SeqLess(x, y)
       IN <<m>> \o SortedSeq(S \ {m})

\* str.replace(':', '-')
ReplaceColon(s) == [i \in 1..Len(s) |-> IF s[i] = Colon THEN Dash ELSE s[i]]

\* the segment file of a table row: f"{video_id}_{start.replace(':','-')}_{end.replace(':','-')}.wav"
WavFilename(seg) ==
  seg.videoID \o <<Under>> \o ReplaceColon(seg.start) \o <<Under>>
    \o ReplaceColon(seg.end) \o DotWav

RECURSIVE IntOf(_)
\* int(text) of a run of decimal digits
IntOf(ds) == IF ds = <<>> THEN 0 ELSE 10 * IntOf(SubSeq(ds, 1, Len(ds) - 1)) + (ds[Len(ds)] - 48)

RECURSIVE StrOf(_)
\* str(n) of a natural number
StrOf(n) == IF n < 10 THEN <<48 + n>> ELSE StrOf(n \div 10) \o <<48 + (n % 10)>>

\* f"{n:02d}"
Pad2(n) == IF n < 10 THEN <<48, 48 + n>> ELSE StrOf(n)

\* faulty variant of FormatMS: the seconds are not zero-padded
FormatNoPad(minutes, seconds) == StrOf(minutes) \o <<Colon>> \o StrOf(seconds)

\* f"{int(minutes)}:{int(seconds):02d}"
FormatMS(minutes, seconds) == StrOf(minutes) \o <<Colon>> \o Pad2(seconds)

\* end of the longest run of digits of s that starts at i (i - 1 if none)
DigitsEnd(s, i) ==
  LET stops == { j \in i..Len(s) : ~IsDigit(s[j]) }
  IN IF stops = {} THEN Len(s)
     ELSE (CHOOSE j \in stops : \A k \in stops : j <= k) - 1

\* the groups of r"([-a-zA-Z0-9_]+)_(\d+)-(\d+)_(\d+)-(\d+)\.wav" when group 1 is s[1..p]
GroupsAt(s, p) ==
  LET a2 == p + 2
      b2 == DigitsEnd(s, a2)
      a3 == b2 + 2
      b3 == DigitsEnd(s, a3)
      a4 == b3 + 2
      b4 == DigitsEnd(s, a4)
      a5 == b4 + 2
      b5 == DigitsEnd(s, a5)
      ok == /\ p >= 1
            /\ \A i \in 1..p : IsIdChar(s[i])
            /\ p + 1 <= Len(s) /\ s[p + 1] = Under
            /\ b2 >= a2 /\ b2 + 1 <= Len(s) /\ s[b2 + 1] = Dash
            /\ b3 >= a3 /\ b3 + 1 <= Len(s) /\ s[b3 + 1] = Under
            /\ b4 >= a4 /\ b4 + 1 <= Len(s) /\ s[b4 + 1] = Dash
            /\ b5 >= a5 /\ b5 + 4 <= Len(s)
            /\ SubSeq(s, b5 + 1, b5 + 4) = DotWav
  IN [ok |-> ok,
      g1 |-> SubSeq(s, 1, p),
      g2 |-> IF ok THEN SubSeq(s, a2, b2) ELSE <<>>,
      g3 |-> IF ok THEN SubSeq(s, a3, b3) ELSE <<>>,
      g4 |-> IF ok THEN SubSeq(s, a4, b4) ELSE <<>>,
      g5 |-> IF ok THEN SubSeq(s, a5, b5) ELSE <<>>]

\* (videoID, start, end) rebuilt from a file name; (filename, "", "") when it does not match
extract_video_info(filename) ==
  LET ps == { p \in 1..Len(filename) : GroupsAt(filename, p).ok }
  IN IF ps = {} THEN <<filename, <<>>, <<>> >>
     ELSE LET p == CHOOSE q \in ps : \A r \in ps : r <= q
              g == GroupsAt(filename, p)
          IN << g.g1,
                FormatMS(IntOf(g.g2), IntOf(g.g3)),
                FormatMS(IntOf(g.g4), IntOf(g.g5)) >>

\* key = (row["videoId"], row["start (M:S)"], row["end (M:S)"])
KeyOf(seg) == <<seg.videoID, seg.start, seg.end>>

\* --------------------------------------------------------- artifact lines
HeaderLine == [type |-> "header", key |-> <<>>, out |-> <<>>]
Row(key, out) == [type |-> "row", key |-> key, out |-> out]

\* csv.DictReader over the artifact: the first line gives the field names;
\* every other line is looked up by the header's column names, which raises
\* KeyError when the first line is not the header
LoadProcessed(lines) ==
  IF Len(lines) = 0 THEN [ok |-> TRUE, keys |-> {}]
  ELSE IF lines[1].type = "header"
       THEN [ok |-> TRUE, keys |-> { lines[i].key : i \in 2..Len(lines) }]
       ELSE [ok |-> Len(lines) = 1, keys |-> {}]

RECURSIVE SplitColon(_)
\* timestr.split(":")
SplitColon(s) ==
  LET cs == { i \in 1..Len(s) : s[i] = Colon }
  IN IF cs = {} THEN <<s>>
     ELSE LET c == CHOOSE i \in cs : \A j \in cs : i <= j
          IN <<SubSeq(s, 1, c - 1)>> \o SplitColon(SubSeq(s, c + 1, Len(s)))

\* int(p) succeeds on a non-empty run of digits
IsIntText(p) == p # <<>> /\ \A i \in 1..Len(p) : IsDigit(p[i])

\* faulty variant of convert_time_to_ms: only two fields are accepted
convert_two_fields_only(timestr) ==
  LET parts == SplitColon(timestr)
      good == Len(parts) = 2 /\ IsIntText(parts[1]) /\ IsIntText(parts[2])
  IN IF good THEN [ok |-> TRUE, ms |-> (IntOf(parts[1]) * 60 + IntOf(parts[2])) * 1000]
     ELSE [ok |-> FALSE, ms |-> 0]

\* milliseconds of "M:S" or "H:M:S"; ok = FALSE stands for the ValueError
convert_time_to_ms(timestr) ==
  LET parts == SplitColon(timestr)
      n == Len(parts)
      good == (\A i \in 1..n : IsIntText(parts[i])) /\ n \in {2, 3}
      hours == IF n = 3 THEN IntOf(parts[1]) ELSE 0
      minutes == IF n = 3 THEN IntOf(parts[2]) ELSE IntOf(parts[1])
      seconds == IF n = 3 THEN IntOf(parts[3]) ELSE IntOf(parts[2])
  IN IF good THEN [ok |-> TRUE, ms |-> (hours * 3600 + minutes * 60 + seconds) * 1000]
     ELSE [ok |-> FALSE, ms |-> 0]

\* ------------------------------------------------------------ label texts
\* "empathetic", "neutral", "anti-empathetic", "antiempathetic", "anti"
TxtEmpathetic == <<101, 109, 112, 97, 116, 104, 101, 116, 105, 99>>
TxtNeutral == <<110, 101, 117, 116, 114, 97, 108>>
TxtAntiHyphen == <<97, 110, 116, 105, 45, 101, 109, 112, 97, 116, 104, 101, 116, 105, 99>>
TxtAntiJoined == <<97, 110, 116, 105, 101, 109, 112, 97, 116, 104, 101, 116, 105, 99>>
TxtAnti == <<97, 110, 116, 105>>
\* "NO_RESPONSE"
TxtNoResponse == <<78, 79, 95, 82, 69, 83, 80, 79, 78, 83, 69>>

\* str.lower() on ASCII text
Lower(text) ==
  [i \in 1..Len(text) |-> IF text[i] >= 65 /\ text[i] <= 90 THEN text[i] + 32 ELSE text[i]]

\* the characters \s matches and str.strip() removes
IsSpace(c) == c \in {9, 10, 11, 12, 13, 32}

\* str.strip()
Strip(text) ==
  LET ks == { i \in 1..Len(text) : ~IsSpace(text[i]) }
  IN IF ks = {} THEN <<>>
     ELSE LET lo == CHOOSE i \in ks : \A j \in ks : i <= j
              hi == CHOOSE i \in ks : \A j \in ks : j <= i
          IN SubSeq(text, lo, hi)

\* re.sub(r"[\s\-]", "", text.lower())
normalize_text(text) == SelectSeq(Lower(text), LAMBDA c : ~IsSpace(c) /\ c # Dash)

\* auto-classify-transcripts-gpt4o.py; the last two branches both return "miss"
compare_match(gt, out) ==
  LET norm_gt == normalize_text(gt)
      norm_out == normalize_text(out)
      both == {norm_gt, norm_out}
  IN IF norm_gt = norm_out THEN "hit"
     ELSE IF TxtNeutral \in both /\ (TxtEmpathetic \in both \/ TxtAntiJoined \in both)
          THEN "near-miss"
     ELSE "miss"

\* auto-classify-wavs.py: lower() only, then membership of both in the label list
compare_classification(pred, actual) ==
  LET pred_lower == Lower(pred)
      actual_lower == Lower(actual)
      labels == {TxtEmpathetic, TxtNeutral, TxtAntiHyphen}
  IN IF pred_lower = actual_lower THEN "hit"
     ELSE IF pred_lower \in labels /\ actual_lower \in labels THEN "near-miss"
     ELSE "miss"

\* faulty variant of the Gemini comparison: only a neutral prediction is a near-miss
compare_classification_one_sided(pred, actual) ==
  LET pred_lower == Strip(Lower(pred))
      actual_lower == Strip(Lower(actual))
  IN IF pred_lower = actual_lower THEN "hit"
     ELSE IF pred_lower = TxtNeutral /\ actual_lower \in {TxtEmpathetic, TxtAntiHyphen}
          THEN "near-miss"
     ELSE "miss"

\* auto-classify-wavs-gemini.py: lower().strip(), then the two-sided neutral test
compare_classification_gemini(pred, actual) ==
  LET pred_lower == Strip(Lower(pred))
      actual_lower == Strip(Lower(actual))
  IN IF pred_lower = actual_lower THEN "hit"
     ELSE IF \/ pred_lower = TxtNeutral /\ actual_lower \in {TxtEmpathetic, TxtAntiHyphen}
             \/ actual_lower = TxtNeutral /\ pred_lower \in {TxtEmpathetic, TxtAntiHyphen}
          THEN "near-miss"
     ELSE "miss"

\* ----------------------------------------------------------- analyze.py
\* A float cell of the data frame: x10 is ten times the value (ratings have at
\* most one decimal), isna marks NaN.  A text cell: isna marks None / NaN.
Num(n) == [isna |-> FALSE, x10 |-> n]
NaN == [isna |-> TRUE, x10 |-> 0]
Txt(t) == [isna |-> FALSE, text |-> t]
None == [isna |-> TRUE, text |-> <<>>]

\* "Unknown", "nan"
TxtUnknown == <<85, 110, 107, 110, 111, 119, 110>>
TxtNan == <<110, 97, 110>>
Dot == 46

\* pd.to_numeric(col, errors='coerce') on a cell: digits, or digits "." digit
to_numeric(cell) ==
  LET ds == { i \in 1..Len(cell) : cell[i] = Dot }
  IN IF IsIntText(cell) THEN Num(10 * IntOf(cell))
     ELSE IF /\ Cardinality(ds) = 1
             /\ Len(cell) >= 3
             /\ cell[Len(cell) - 1] = Dot
             /\ IsIntText(SubSeq(cell, 1, Len(cell) - 2))
             /\ IsDigit(cell[Len(cell)])
          THEN Num(10 * IntOf(SubSeq(cell, 1, Len(cell) - 2)) + (cell[Len(cell)] - 48))
     ELSE NaN

\* df["Category"].astype(str).str.lower().str.strip(); an empty cell is read as NaN, whose str is "nan"
category_clean(cell) == Strip(Lower(IF cell = <<>> THEN TxtNan ELSE cell))

\* Series.map(truth_mapping) with truth_mapping = {"anti": 1, "neutral": 3, "empathetic": 5}
truth_mapping(clean) ==
  IF clean = TxtAnti THEN Num(10)
  ELSE IF clean = TxtNeutral THEN Num(30)
  ELSE IF clean = TxtEmpathetic THEN Num(50)
  ELSE NaN

\* (df[col] - df["truth_numeric"]).abs(): NaN if either side is NaN
abs_error(rating, truth) ==
  IF rating.isna \/ truth.isna THEN NaN
  ELSE Num(IF rating.x10 >= truth.x10 THEN rating.x10 - truth.x10 ELSE truth.x10 - rating.x10)

\* faulty variant of numeric_to_category: the ranges are closed up, no rating falls between them
numeric_to_category_no_gap(rating) ==
  IF rating.isna THEN None
  ELSE IF rating.x10 < 30 THEN Txt(TxtAnti)
  ELSE IF rating.x10 < 40 THEN Txt(TxtNeutral)
  ELSE Txt(TxtEmpathetic)

\* every comparison with NaN is False and the function then falls off its end (None)
numeric_to_category(rating) ==
  IF rating.isna THEN None
  ELSE IF rating.x10 <= 20 THEN Txt(TxtAnti)
  ELSE IF rating.x10 = 30 THEN Txt(TxtNeutral)
  ELSE IF rating.x10 >= 40 THEN Txt(TxtEmpathetic)
  ELSE None

\* Series.fillna(value)
fillna(cell, value) == IF cell.isna THEN Txt(value) ELSE cell

\* labels=["empathetic", "neutral", "anti"]
ReportLabels == <<TxtEmpathetic, TxtNeutral, TxtAnti>>

\* sklearn confusion_matrix(truth, preds, labels=...): cm[i][j] counts the rows with
\* truth labels[i] and prediction labels[j]; a row with either value outside labels is left out
confusion_matrix(truth, preds, labels) ==
  [i \in 1..Len(labels) |->
    [j \in 1..Len(labels) |->
      Cardinality({ k \in 1..Len(truth) : truth[k] = labels[i] /\ preds[k] = labels[j] })]]

\* --------------------------------------------------- parsing the answer
\* `needle in hay` for two texts
Contains(hay, needle) ==
  \E i \in 1..(Len(hay) - Len(needle) + 1) : SubSeq(hay, i, i + Len(needle) - 1) = needle

\* valid = {"empathetic", "neutral", "anti-empathetic"}
ValidLabels == {TxtEmpathetic, TxtNeutral, TxtAntiHyphen}

\* The orders in which `for label in valid` can visit a set of three strings:
\* the order of a Python set of str follows the strings' hashes, which are
\* salted per process, so it is any of the six.
SetOrders ==
  { o \in [1..3 -> ValidLabels] : \A i, j \in 1..3 : i # j => o[i] # o[j] }

\* classify_audio from the answer text on: strip().lower(), "NO_RESPONSE" for an
\* empty answer, the answer itself if it is a label, else the first label of
\* the set, in iteration order, that the answer contains, else "NO_RESPONSE"
parse_answer(text, order) ==
  LET c == IF Strip(Lower(text)) = <<>> THEN TxtNoResponse ELSE Strip(Lower(text))
      hits == { i \in 1..3 : Contains(c, order[i]) }
  IN IF c \in ValidLabels THEN c
     ELSE IF hits = {} THEN TxtNoResponse
     ELSE order[CHOOSE i \in hits : \A j \in hits : i <= j]

\* ------------------------------------------------------- rater boundaries
\* what a rater call can do: raise, or return a text
RatingTexts == {"4"}
LabelTexts == {"neutral"}
Raise == "raise"

\* auto-classify.py: the except branch returns the sentinel "Error"
get_gpt_rating(outcome) == IF outcome = Raise THEN "Error" ELSE outcome

\* faulty variant of call_llm: the except branch returns an empty text
call_llm_no_sentinel(outcome) == IF outcome = Raise THEN "" ELSE outcome

\* auto-classify-transcripts-gpt4o.py: the except branch returns "Error: ..."
call_llm(outcome) == IF outcome = Raise THEN "Error: e" ELSE outcome

\* audio-direct scripts: an empty response becomes NO_RESPONSE; an exception
\* of the API call is not caught here (ok = FALSE: it propagates to main)
classify_audio(outcome) ==
  IF outcome = Raise THEN [ok |-> FALSE, label |-> ""]
  ELSE IF outcome = "" THEN [ok |-> TRUE, label |-> "NO_RESPONSE"]
  ELSE [ok |-> TRUE, label |-> outcome]

\* ------------------------------------------------------------------ state
VARIABLES
  script,         \* which script is being run (fixed)
  table,          \* segments.csv: the rows in file order (fixed)
  downloads,      \* video ids whose downloads/<id>.wav exists
  exists,         \* os.path.exists(output artifact)
  output,         \* lines of the output artifact on disk
  out_buf,        \* lines written to the open file object and not yet flushed
  processed_keys, \* processed_keys / already_processed of the current run
  file_exists,    \* auto-classify.py's local file_exists
  files,          \* audio-direct scripts: sorted listing of segments/
  idx,            \* position of the for loop in the table / in files
  pc,             \* position in main()
  ratings,        \* results of the worker calls of the current unit
  status,         \* per unit of the current run: PENDING, SKIPPED, IN_FLIGHT, DONE, FAILED
  invoked,        \* positions the worker was invoked for in the current run, in order
  appended,       \* positions whose row was written in the current run, in order
  raised,         \* positions of the current run for which a rater call raised
  runs,           \* number of runs started
  ended,          \* how the current / last run ended: none, complete, interrupted, crashed
  prev,           \* how the run before the current one ended
  keys0,          \* the keys that had a row in the artifact when the current run started
  ground_truth,   \* comparison: the ground-truth category text
  prediction,     \* comparison: the rater's label text
  compared,       \* comparison: which script's function has been applied ("none" before)
  match,          \* comparison: the verdict it returned
  df,             \* analyze.py: the data frame, a sequence of rows (records of cells)
  step,           \* analyze.py: how far the script has got
  cm,             \* analyze.py: the confusion matrix of the rating column
  timestr,        \* time codec: the timestamp text
  start_ms,       \* time codec: what convert_time_to_ms returned for it
  formatted,      \* time codec: the text formatted from the parsed value
  codec,          \* time codec: text, parsed, failed or formatted ("off" when unused)
  response,       \* answer parsing: the text the audio model answered
  classification, \* answer parsing: what classify_audio returns for it
  parsing         \* answer parsing: text or done ("off" when unused)

vars == <<script, table, downloads, exists, output, out_buf, processed_keys, file_exists,
          files, idx, pc, ratings, status, invoked, appended, raised, runs, ended, prev,
          keys0, ground_truth, prediction, compared, match, df, step, cm,
          timestr, start_ms, formatted, codec, response, classification, parsing>>

inputs == <<script, table>>
\* the variables of the batch scripts
batch == <<script, table, downloads, exists, output, out_buf, processed_keys, file_exists,
           files, idx, pc, ratings, status, invoked, appended, raised, runs, ended, prev,
           keys0>>
\* the variables of the label comparison, of analyze.py and of the time codec
matching == <<ground_truth, prediction, compared, match>>
frame == <<df, step, cm>>
timing == <<timestr, start_ms, formatted, codec>>
reply == <<response, classification, parsing>>
\* what no batch run touches
calc == <<matching, frame, timing, reply>>
ghost == <<runs, prev, keys0>>

NUnits == IF IsWav(script) THEN Len(files) ELSE Len(table)

\* the key the loop computes for position i
UnitKey(i) == IF IsWav(script) THEN extract_video_info(files[i]) ELSE KeyOf(table[i])

Pending == [i \in 1..Len(table) |-> "PENDING"]

\* no comparison is under way
MatchIdle ==
  /\ ground_truth = <<>>
  /\ prediction = <<>>
  /\ compared = "none"
  /\ match = ""

\* analyze.py is not running
AnalyzeIdle ==
  /\ df = <<>>
  /\ step = "off"
  /\ cm = <<>>

\* no timestamp is being converted
CodecIdle ==
  /\ timestr = <<>>
  /\ start_ms = 0
  /\ formatted = <<>>
  /\ codec = "off"

\* no answer is being parsed
ParseIdle ==
  /\ response = <<>>
  /\ classification = <<>>
  /\ parsing = "off"

RunInit ==
  /\ script \in Scripts
  /\ table \in Tables
  /\ downloads = {}
  /\ exists = FALSE
  /\ output = <<>>
  /\ out_buf = <<>>
  /\ processed_keys = {}
  /\ file_exists = FALSE
  /\ files = <<>>
  /\ idx = 1
  /\ pc = "idle"
  /\ ratings = <<>>
  /\ status = Pending
  /\ invoked = <<>>
  /\ appended = <<>>
  /\ raised = {}
  /\ runs = 0
  /\ ended = "none"
  /\ prev = "none"
  /\ keys0 = {}

Init == RunInit /\ MatchIdle /\ AnalyzeIdle /\ CodecIdle /\ ParseIdle

EntryPc(s) == IF s \in {"ac", "tr"} THEN "load" ELSE IF IsWav(s) THEN "ensure" ELSE "open"

\* the command is started (again)
StartRun ==
  /\ pc = "idle"
  /\ runs < MaxRuns
  /\ runs' = runs + 1
  /\ prev' = ended
  /\ keys0' = { output[i].key : i \in { j \in 1..Len(output) : output[j].type = "row" } }
  /\ ended' = "none"
  /\ pc' = EntryPc(script)
  /\ processed_keys' = {}
  /\ file_exists' = FALSE
  /\ files' = <<>>
  /\ idx' = 1
  /\ ratings' = <<>>
  /\ status' = Pending
  /\ invoked' = <<>>
  /\ appended' = <<>>
  /\ raised' = {}
  /\ UNCHANGED <<calc, script, table, downloads, exists, output, out_buf>>

\* main() is left: the with blocks close the file objects, which flushes them
EndRun(how) ==
  /\ output' = output \o out_buf
  /\ out_buf' = <<>>
  /\ pc' = "idle"
  /\ ended' = how
  /\ UNCHANGED <<calc, inputs, ghost, downloads, exists, processed_keys, file_exists, files, idx,
                 ratings, status, invoked, appended, raised>>

\* for-loop shapes shared by the scripts
LoopEnd ==
  /\ pc = "loop"
  /\ idx > NUnits
  /\ EndRun("complete")

\* faulty variant of LoopSkip: the unit is processed although its key is known
LoopSkipReprocess ==
  /\ pc = "loop"
  /\ idx <= NUnits
  /\ UnitKey(idx) \in processed_keys
  /\ status' = [status EXCEPT ![idx] = "IN_FLIGHT"]
  /\ pc' = IF script = "ac" THEN "rate" ELSE "call"
  /\ ratings' = <<>>
  /\ UNCHANGED <<calc, inputs, ghost, downloads, exists, output, out_buf, processed_keys,
                 file_exists, files, idx, invoked, appended, raised, ended>>

\* if key in processed_keys: continue
LoopSkip ==
  /\ pc = "loop"
  /\ idx <= NUnits
  /\ UnitKey(idx) \in processed_keys
  /\ status' = [status EXCEPT ![idx] = "SKIPPED"]
  /\ idx' = idx + 1
  /\ UNCHANGED <<calc, inputs, ghost, downloads, exists, output, out_buf, processed_keys,
                 file_exists, files, pc, ratings, invoked, appended, raised, ended>>

LoopEnter(next) ==
  /\ pc = "loop"
  /\ idx <= NUnits
  /\ UnitKey(idx) \notin processed_keys
  /\ status' = [status EXCEPT ![idx] = "IN_FLIGHT"]
  /\ pc' = next
  /\ ratings' = <<>>
  /\ UNCHANGED <<calc, inputs, ghost, downloads, exists, output, out_buf, processed_keys,
                 file_exists, files, idx, invoked, appended, raised, ended>>

\* the scan of the artifact that rebuilds the processed key set
LoadKeys(next) ==
  LET r == LoadProcessed(output)
  IN IF r.ok
     THEN /\ processed_keys' = r.keys
          /\ pc' = next
          /\ UNCHANGED <<calc, inputs, ghost, downloads, exists, output, out_buf, file_exists,
                         idx, ratings, status, invoked, appended, raised, ended>>
     ELSE /\ EndRun("crashed")

\* ----------------------------------------------------- auto-classify.py
AcLoad ==
  /\ script = "ac" /\ pc = "load"
  /\ IF exists THEN LoadKeys("open")
     ELSE /\ pc' = "open"
          /\ UNCHANGED <<calc, inputs, ghost, downloads, exists, output, out_buf, processed_keys,
                         file_exists, files, idx, ratings, status, invoked, appended, raised,
                         ended>>
  /\ files' = files

\* mode "a" if the artifact exists, else "w"
AcOpen ==
  /\ script = "ac" /\ pc = "open"
  /\ file_exists' = exists
  /\ exists' = TRUE
  /\ output' = IF exists THEN output ELSE <<>>
  /\ pc' = "header"
  /\ UNCHANGED <<calc, inputs, ghost, downloads, out_buf, processed_keys, files, idx, ratings,
                 status, invoked, appended, raised, ended>>

AcHeader ==
  /\ script = "ac" /\ pc = "header"
  /\ out_buf' = IF file_exists THEN out_buf ELSE Append(out_buf, HeaderLine)
  /\ pc' = "loop"
  /\ UNCHANGED <<calc, inputs, ghost, downloads, exists, output, processed_keys, file_exists,
                 files, idx, ratings, status, invoked, appended, raised, ended>>

AcEnter == script = "ac" /\ LoopEnter("rate")

\* the three get_gpt_rating calls, one per step
AcRate ==
  /\ script = "ac" /\ pc = "rate"
  /\ \E outcome \in {Raise} \cup RatingTexts :
       /\ ratings' = Append(ratings, get_gpt_rating(outcome))
       /\ raised' = IF outcome = Raise THEN raised \cup {idx} ELSE raised
  /\ invoked' = IF ratings = <<>> THEN Append(invoked, idx) ELSE invoked
  /\ pc' = IF Len(ratings) = 2 THEN "write" ELSE "rate"
  /\ UNCHANGED <<calc, inputs, ghost, downloads, exists, output, out_buf, processed_keys,
                 file_exists, files, idx, status, appended, ended>>

\* writer.writerow(seg_row): no flush follows
AcWrite ==
  /\ script = "ac" /\ pc = "write"
  /\ out_buf' = Append(out_buf, Row(UnitKey(idx), ratings))
  /\ appended' = Append(appended, idx)
  /\ pc' = "add"
  /\ UNCHANGED <<calc, inputs, ghost, downloads, exists, output, processed_keys, file_exists,
                 files, idx, ratings, status, invoked, raised, ended>>

\* processed_keys.add(key), then the next iteration
AddKey ==
  /\ script \in {"ac", "tr"} /\ pc = "add"
  /\ processed_keys' = processed_keys \cup {UnitKey(idx)}
  /\ status' = [status EXCEPT ![idx] = "DONE"]
  /\ idx' = idx + 1
  /\ pc' = "loop"
  /\ UNCHANGED <<calc, inputs, ghost, downloads, exists, output, out_buf, file_exists, files,
                 ratings, invoked, appended, raised, ended>>

\* ------------------------------------- auto-classify-transcripts-gpt4o.py
TrLoad ==
  /\ script = "tr" /\ pc = "load"
  /\ IF exists THEN LoadKeys("open")
     ELSE /\ pc' = "open"
          /\ UNCHANGED <<calc, inputs, ghost, downloads, exists, output, out_buf, processed_keys,
                         file_exists, files, idx, ratings, status, invoked, appended, raised,
                         ended>>
  /\ files' = files

\* open(output_csv, "a")
TrOpen ==
  /\ script = "tr" /\ pc = "open"
  /\ exists' = TRUE
  /\ pc' = "header"
  /\ UNCHANGED <<calc, inputs, ghost, downloads, output, out_buf, processed_keys, file_exists,
                 files, idx, ratings, status, invoked, appended, raised, ended>>

\* if out_file.tell() == 0: writeheader(); flush()
TrHeader ==
  /\ script = "tr" /\ pc = "header"
  /\ output' = IF Len(output) = 0 THEN <<HeaderLine>> ELSE output
  /\ pc' = "loop"
  /\ UNCHANGED <<calc, inputs, ghost, downloads, exists, out_buf, processed_keys, file_exists,
                 files, idx, ratings, status, invoked, appended, raised, ended>>

TrEnter == script = "tr" /\ LoopEnter("call")

TrCall ==
  /\ script = "tr" /\ pc = "call"
  /\ \E outcome \in {Raise} \cup LabelTexts :
       /\ ratings' = <<call_llm(outcome)>>
       /\ raised' = IF outcome = Raise THEN raised \cup {idx} ELSE raised
  /\ invoked' = Append(invoked, idx)
  /\ pc' = "write"
  /\ UNCHANGED <<calc, inputs, ghost, downloads, exists, output, out_buf, processed_keys,
                 file_exists, files, idx, status, appended, ended>>

\* writer.writerow(result_row); out_file.flush()
TrWrite ==
  /\ script = "tr" /\ pc = "write"
  /\ output' = Append(output \o out_buf, Row(UnitKey(idx), ratings))
  /\ out_buf' = <<>>
  /\ appended' = Append(appended, idx)
  /\ pc' = "add"
  /\ UNCHANGED <<calc, inputs, ghost, downloads, exists, processed_keys, file_exists, files, idx,
                 ratings, status, invoked, raised, ended>>

\* ------------------------ auto-classify-wavs.py, auto-classify-wavs-gemini.py
\* if not os.path.exists(OUTPUT_CSV): open(OUTPUT_CSV, "w")
WvEnsure ==
  /\ IsWav(script) /\ pc = "ensure"
  /\ exists' = TRUE
  /\ output' = IF exists THEN output ELSE <<>>
  /\ pc' = IF exists THEN "load" ELSE "header"
  /\ UNCHANGED <<calc, inputs, ghost, downloads, out_buf, processed_keys, file_exists, files, idx,
                 ratings, status, invoked, appended, raised, ended>>

\* writer.writerow([...header...]); the with block closes the file
WvHeader ==
  /\ IsWav(script) /\ pc = "header"
  /\ output' = Append(output, HeaderLine)
  /\ pc' = "load"
  /\ UNCHANGED <<calc, inputs, ghost, downloads, exists, out_buf, processed_keys, file_exists,
                 files, idx, ratings, status, invoked, appended, raised, ended>>

\* the scan of the artifact, then files = sorted(os.listdir(SEGMENTS_DIR))
WvLoad ==
  /\ IsWav(script) /\ pc = "load"
  /\ LoadKeys("loop")
  /\ files' = IF LoadProcessed(output).ok
              THEN SortedSeq({ WavFilename(table[i]) : i \in 1..Len(table) })
              ELSE files

WvEnter == IsWav(script) /\ LoopEnter("call")

\* classify_audio inside the try; except Exception prints and goes on
WvClassify ==
  /\ IsWav(script) /\ pc = "call"
  /\ invoked' = Append(invoked, idx)
  /\ \E outcome \in {Raise, ""} \cup LabelTexts :
       LET r == classify_audio(outcome)
       IN /\ raised' = IF r.ok THEN raised ELSE raised \cup {idx}
          /\ IF r.ok
             THEN /\ ratings' = <<r.label>>
                  /\ pc' = "write"
                  /\ UNCHANGED <<idx, status>>
             ELSE /\ status' = [status EXCEPT ![idx] = "FAILED"]
                  /\ idx' = idx + 1
                  /\ pc' = "loop"
                  /\ UNCHANGED ratings
  /\ UNCHANGED <<calc, inputs, ghost, downloads, exists, output, out_buf, processed_keys,
                 file_exists, files, appended, ended>>

\* with open(OUTPUT_CSV, "a"): writerow; flush -- already_processed is not updated
WvWrite ==
  /\ IsWav(script) /\ pc = "write"
  /\ output' = Append(output, Row(UnitKey(idx), ratings))
  /\ appended' = Append(appended, idx)
  /\ status' = [status EXCEPT ![idx] = "DONE"]
  /\ idx' = idx + 1
  /\ pc' = "loop"
  /\ UNCHANGED <<calc, inputs, ghost, downloads, exists, out_buf, processed_keys, file_exists,
                 files, ratings, invoked, raised, ended>>

\* ----------------------------------------------------------- extractor.py
\* open(output_file, "w")
ExOpen ==
  /\ script = "ext" /\ pc = "open"
  /\ exists' = TRUE
  /\ output' = <<>>
  /\ pc' = "header"
  /\ UNCHANGED <<calc, inputs, ghost, downloads, out_buf, processed_keys, file_exists, files, idx,
                 ratings, status, invoked, appended, raised, ended>>

ExHeader ==
  /\ script = "ext" /\ pc = "header"
  /\ out_buf' = Append(out_buf, HeaderLine)
  /\ pc' = "loop"
  /\ UNCHANGED <<calc, inputs, ghost, downloads, exists, output, processed_keys, file_exists,
                 files, idx, ratings, status, invoked, appended, raised, ended>>

\* the row's timestamps are converted outside any try
ExConvert ==
  /\ script = "ext" /\ pc = "loop"
  /\ idx <= NUnits
  /\ IF convert_time_to_ms(table[idx].start).ok /\ convert_time_to_ms(table[idx].end).ok
     THEN /\ status' = [status EXCEPT ![idx] = "IN_FLIGHT"]
          /\ pc' = "fetch"
          /\ UNCHANGED <<calc, inputs, ghost, downloads, exists, output, out_buf, processed_keys,
                         file_exists, files, idx, ratings, invoked, appended, raised, ended>>
     ELSE /\ EndRun("crashed")

\* faulty variant of ExFetch: a failed download is not caught and ends the run
ExFetchAbort ==
  /\ script = "ext" /\ pc = "fetch"
  /\ \/ /\ table[idx].videoID \in downloads
        /\ pc' = "process"
        /\ invoked' = Append(invoked, idx)
        /\ UNCHANGED <<calc, inputs, ghost, downloads, exists, output, out_buf, processed_keys,
                       file_exists, files, idx, ratings, status, appended, raised, ended>>
     \/ /\ table[idx].videoID \notin downloads
        /\ \E ok \in BOOLEAN :
             IF ok
             THEN /\ downloads' = downloads \cup {table[idx].videoID}
                  /\ pc' = "process"
                  /\ invoked' = Append(invoked, idx)
                  /\ UNCHANGED <<calc, inputs, ghost, exists, output, out_buf, processed_keys,
                                 file_exists, files, idx, ratings, status, appended, raised,
                                 ended>>
             ELSE EndRun("crashed")

\* download_audio unless downloads/<id>.wav exists; on failure: continue
ExFetch ==
  /\ script = "ext" /\ pc = "fetch"
  /\ invoked' = Append(invoked, idx)
  /\ \/ /\ table[idx].videoID \in downloads
        /\ pc' = "process"
        /\ UNCHANGED <<downloads, idx, status>>
     \/ /\ table[idx].videoID \notin downloads
        /\ \E ok \in BOOLEAN :
             IF ok
             THEN /\ downloads' = downloads \cup {table[idx].videoID}
                  /\ pc' = "process"
                  /\ UNCHANGED <<idx, status>>
             ELSE /\ status' = [status EXCEPT ![idx] = "FAILED"]
                  /\ idx' = idx + 1
                  /\ pc' = "loop"
                  /\ UNCHANGED downloads
  /\ UNCHANGED <<calc, inputs, ghost, exists, output, out_buf, processed_keys, file_exists, files,
                 ratings, appended, raised, ended>>

\* slice, compute the features, writer.writerow; except Exception prints
ExProcess ==
  /\ script = "ext" /\ pc = "process"
  /\ \E ok \in BOOLEAN :
       IF ok
       THEN /\ out_buf' = Append(out_buf, Row(UnitKey(idx), <<"feats">>))
            /\ appended' = Append(appended, idx)
            /\ status' = [status EXCEPT ![idx] = "DONE"]
       ELSE /\ status' = [status EXCEPT ![idx] = "FAILED"]
            /\ UNCHANGED <<out_buf, appended>>
  /\ idx' = idx + 1
  /\ pc' = "loop"
  /\ UNCHANGED <<calc, inputs, ghost, downloads, exists, output, processed_keys, file_exists,
                 files, ratings, invoked, raised, ended>>

\* ------------------------------------------------------------- interrupt
\* KeyboardInterrupt at any point of a run: main() is left at once
Interrupt ==
  /\ pc # "idle"
  /\ EndRun("interrupted")

Skip == script # "ext" /\ LoopSkip

Next ==
  \/ StartRun
  \/ AcLoad \/ AcOpen \/ AcHeader \/ AcEnter \/ AcRate \/ AcWrite
  \/ TrLoad \/ TrOpen \/ TrHeader \/ TrEnter \/ TrCall \/ TrWrite
  \/ AddKey
  \/ WvEnsure \/ WvHeader \/ WvLoad \/ WvEnter \/ WvClassify \/ WvWrite
  \/ ExOpen \/ ExHeader \/ ExConvert \/ ExFetch \/ ExProcess
  \/ Skip \/ LoopEnd
  \/ Interrupt

Spec == Init /\ [][Next]_vars

\* ------------------------------------------------- the label comparison
\* spaces put before and after a label text
MaxPad == 1

\* str.upper() on ASCII text
Upper(text) ==
  [i \in 1..Len(text) |-> IF text[i] >= 97 /\ text[i] <= 122 THEN text[i] - 32 ELSE text[i]]

Pad(n) == [i \in 1..n |-> 32]

\* the label spellings, the NO_RESPONSE sentinel and the empty text
BaseTexts ==
  {TxtEmpathetic, TxtNeutral, TxtAntiHyphen, TxtAntiJoined, TxtAnti, TxtNoResponse, <<>>}

\* the texts a Category cell or a rater's answer is drawn from
Texts ==
  { Pad(l) \o c \o Pad(r) :
      l \in 0..MaxPad, r \in 0..MaxPad, c \in BaseTexts \cup { Upper(b) : b \in BaseTexts } }

\* no batch run is under way while the comparison functions are exercised
RunOff ==
  /\ RunInit
  /\ script = "tr"
  /\ table = << [videoID |-> <<97>>, start |-> <<48, 58, 48, 53>>, end |-> <<48, 58, 49, 48>>] >>

InitMatch ==
  /\ RunOff /\ AnalyzeIdle /\ CodecIdle /\ ParseIdle
  /\ ground_truth \in Texts
  /\ prediction \in Texts
  /\ compared = "none"
  /\ match = ""

\* category = row.get("Category", "").strip(); match = compare_match(category, transcript_result)
CompareMatch ==
  /\ compared = "none"
  /\ compared' = "tr"
  /\ match' = compare_match(Strip(ground_truth), prediction)
  /\ UNCHANGED <<batch, reply, frame, timing, ground_truth, prediction>>

\* match = compare_classification(classification, cat) in auto-classify-wavs.py
CompareWavs ==
  /\ compared = "none"
  /\ compared' = "wavs"
  /\ match' = compare_classification(prediction, ground_truth)
  /\ UNCHANGED <<batch, reply, frame, timing, ground_truth, prediction>>

\* match = compare_classification(classification, cat) in auto-classify-wavs-gemini.py
CompareGemini ==
  /\ compared = "none"
  /\ compared' = "gemini"
  /\ match' = compare_classification_gemini(prediction, ground_truth)
  /\ UNCHANGED <<batch, reply, frame, timing, ground_truth, prediction>>

NextMatch == CompareMatch \/ CompareWavs \/ CompareGemini

SpecMatch == InitMatch /\ [][NextMatch]_vars

\* ------------------------------------------------------------ analyze.py
\* The script treats its three rating columns alike, one after the other; the
\* frame carries one of them, `rating`.
MaxRows == 2

\* "empathetic", " Neutral", "anti", "anti-empathetic" and the empty cell
CategoryCells ==
  { TxtEmpathetic, <<32, 78, 101, 117, 116, 114, 97, 108>>, TxtAnti, TxtAntiHyphen, <<>> }

\* "2", "3", "4", "5", "2.5", "3.5" and the sentinel "Error"
RatingCells ==
  { <<50>>, <<51>>, <<52>>, <<53>>, <<50, 46, 53>>, <<51, 46, 53>>, <<69, 114, 114, 111, 114>> }

\* the frames pd.read_csv can return
Frames == UNION { [1..n -> [Category : CategoryCells, rating : RatingCells]] : n \in 1..MaxRows }

InitAnalyze ==
  /\ RunOff /\ MatchIdle /\ CodecIdle /\ ParseIdle
  /\ df \in Frames
  /\ step = "loaded"
  /\ cm = <<>>

\* Category_clean and truth_numeric
Clean ==
  /\ step = "loaded"
  /\ df' = [i \in 1..Len(df) |->
             [Category |-> df[i].Category, rating |-> df[i].rating,
              Category_clean |-> category_clean(df[i].Category),
              truth_numeric |-> truth_mapping(category_clean(df[i].Category))]]
  /\ step' = "cleaned"
  /\ UNCHANGED <<batch, reply, matching, timing, cm>>

\* df[col] = pd.to_numeric(df[col], errors='coerce')
ToNumeric ==
  /\ step = "cleaned"
  /\ df' = [i \in 1..Len(df) |-> [df[i] EXCEPT !.rating = to_numeric(df[i].rating)]]
  /\ step' = "numeric"
  /\ UNCHANGED <<batch, reply, matching, timing, cm>>

\* df[col + "_abs_error"] = (df[col] - df["truth_numeric"]).abs()
AbsError ==
  /\ step = "numeric"
  /\ df' = [i \in 1..Len(df) |->
             [Category |-> df[i].Category, rating |-> df[i].rating,
              Category_clean |-> df[i].Category_clean,
              truth_numeric |-> df[i].truth_numeric,
              rating_abs_error |-> abs_error(df[i].rating, df[i].truth_numeric)]]
  /\ step' = "errors"
  /\ UNCHANGED <<batch, reply, matching, timing, cm>>

\* df[col + "_predicted"] = df[col].apply(numeric_to_category)
Predict ==
  /\ step = "errors"
  /\ df' = [i \in 1..Len(df) |->
             [Category |-> df[i].Category, rating |-> df[i].rating,
              Category_clean |-> df[i].Category_clean,
              truth_numeric |-> df[i].truth_numeric,
              rating_abs_error |-> df[i].rating_abs_error,
              rating_predicted |-> numeric_to_category(df[i].rating)]]
  /\ step' = "predicted"
  /\ UNCHANGED <<batch, reply, matching, timing, cm>>

\* preds = df[method].fillna("Unknown")
preds == [i \in 1..Len(df) |-> fillna(df[i].rating_predicted, TxtUnknown).text]

\* truth = df["Category_clean"].fillna("Unknown"); astype(str) has left no missing value
truth == [i \in 1..Len(df) |-> df[i].Category_clean]

\* cm = confusion_matrix(truth, preds, labels=["empathetic", "neutral", "anti"])
Confusion ==
  /\ step = "predicted"
  /\ cm' = confusion_matrix(truth, preds, ReportLabels)
  /\ step' = "done"
  /\ UNCHANGED <<batch, reply, matching, timing, df>>

NextAnalyze == Clean \/ ToNumeric \/ AbsError \/ Predict \/ Confusion

SpecAnalyze == InitAnalyze /\ [][NextAnalyze]_vars

\* ------------------------------------------------------------- time codec
\* convert_time_to_ms, and the formatting expression of extract_video_info
\* applied to the whole seconds of the parsed value
MaxTimeLen == 5

\* '0', '5', '7' and ':'
TimeChars == {48, 53, 55, Colon}

TimeStrs == UNION { [1..n -> TimeChars] : n \in 1..MaxTimeLen }

InitCodec ==
  /\ RunOff /\ MatchIdle /\ AnalyzeIdle /\ ParseIdle
  /\ timestr \in TimeStrs
  /\ start_ms = 0
  /\ formatted = <<>>
  /\ codec = "text"

\* start_ms = convert_time_to_ms(start); a ValueError leaves no value
Parse ==
  /\ codec = "text"
  /\ LET r == convert_time_to_ms(timestr)
     IN IF r.ok THEN start_ms' = r.ms /\ codec' = "parsed"
        ELSE codec' = "failed" /\ UNCHANGED start_ms
  /\ UNCHANGED <<batch, reply, matching, frame, timestr, formatted>>

\* the minutes and seconds of start_ms // 1000, written as extract_video_info writes them
Format ==
  /\ codec = "parsed"
  /\ formatted' = FormatMS((start_ms \div 1000) \div 60, (start_ms \div 1000) % 60)
  /\ codec' = "formatted"
  /\ UNCHANGED <<batch, reply, matching, frame, timestr, start_ms>>

NextCodec == Parse \/ Format

SpecCodec == InitCodec /\ [][NextCodec]_vars

\* ---------------------------------------------------- parsing the answer
\* the labels in three spellings, the bare anti and the empty answer
AnswerWords == {TxtEmpathetic, TxtNeutral, TxtAntiHyphen, TxtAntiJoined, TxtAnti, <<>>}

\* the answers of the audio model: a word as it is or in capitals, with or
\* without a full stop, with spaces around it
Answers ==
  { Pad(l) \o w \o tail \o Pad(r) :
      l \in 0..MaxPad, r \in 0..MaxPad, tail \in {<<>>, <<Dot>>},
      w \in AnswerWords \cup { Upper(a) : a \in AnswerWords } }

InitParse ==
  /\ RunOff /\ MatchIdle /\ AnalyzeIdle /\ CodecIdle
  /\ response \in Answers
  /\ classification = <<>>
  /\ parsing = "text"

\* classify_audio parses the answer; the loop over the label set runs in some order
ParseAnswer ==
  /\ parsing = "text"
  /\ \E order \in SetOrders : classification' = parse_answer(response, order)
  /\ parsing' = "done"
  /\ UNCHANGED <<batch, matching, frame, timing, response>>

NextParse == ParseAnswer

SpecParse == InitParse /\ [][NextParse]_vars

\* ------------------------------------------------------------ vocabulary
\* the data rows of a sequence of artifact lines
DataRows(lines) == SelectSeq(lines, LAMBDA l : l.type = "row")

\* the keys the next run's scan would find in the artifact as it is on disk
KeysOnDisk == LoadProcessed(output).keys

Units == 1..NUnits

\* positions are strictly increasing along a sequence
Increasing(s) == \A j, k \in 1..Len(s) : j < k => s[j] < s[k]

\* C1: the output artifact never holds two rows with the same SegmentKey
\* (stated for the three resumable rating / classification scripts).
C1_NoDuplicateKeys ==
  script \in {"ac", "tr", "wav"} =>
    \A j, k \in 1..Len(output) :
      (j # k /\ output[j].type = "row" /\ output[k].type = "row")
        => output[j].key # output[k].key

\* C2: a run that follows a completed run of the same command on the same
\* inputs invokes the worker for no key that already has a row.
C2_NoReinvocation ==
  (script \in {"ac", "tr", "ext"} /\ runs >= 2 /\ prev = "complete")
    => \A j \in 1..Len(invoked) : UnitKey(invoked[j]) \notin keys0

\* C3: the artifact is append-only: in every step of every script, feature
\* extraction included, the rows on disk before the step are still there,
\* unchanged and in place, after it.
C3_AppendOnly ==
  [][/\ Len(DataRows(output')) >= Len(DataRows(output))
     /\ SubSeq(DataRows(output'), 1, Len(DataRows(output))) = DataRows(output)]_vars

\* C4: a unit that FAILED leaves its key unprocessed: when the run is over, the
\* scan of the next run does not find the key of any FAILED unit.
C4_FailedKeyUnprocessed ==
  (script = "wav" /\ pc = "idle")
    => \A i \in Units : status[i] = "FAILED" => UnitKey(i) \notin KeysOnDisk

\* ------------------------------------------------- rater-call failures
Range(s) == { s[i] : i \in 1..Len(s) }

\* everything written to the artifact, flushed or not
AllLines == output \o out_buf

\* the line written for the j-th unit completed in the current run
RunRow(j) == AllLines[Len(AllLines) - Len(appended) + j]

IsSentinel(text) == text \in {"Error", "Error: e", "NO_RESPONSE"}

HasSentinelRow(i) ==
  \E j \in 1..Len(appended) :
    /\ appended[j] = i
    /\ \E k \in 1..Len(RunRow(j).out) : IsSentinel(RunRow(j).out[k])

\* C5 (as stated): in every rating / classification script a unit whose rater
\* call raised gets an output row that holds a sentinel value.
C5_SentinelRecorded ==
  script \in {"ac", "tr", "wav"} =>
    \A i \in raised : i < idx => HasSentinelRow(i)

C5_State ==
  /\ script \in {"ac", "tr"} =>
       \A i \in raised : status[i] # "FAILED" /\ (i < idx => HasSentinelRow(i))
  /\ script = "wav" =>
       \A i \in raised : status[i] = "FAILED" /\ i \notin Range(appended)
  /\ ended = "complete" =>
       \A i \in Units : status[i] \in {"SKIPPED", "DONE", "FAILED"}

C5_Step == raised' \ raised # {} => (ended' = "none" /\ pc' \in {"rate", "write", "loop"})

\* C5 (amended): a rater-call failure never ends the run and every later unit
\* is still processed; the rating scripts record a sentinel in the unit's row,
\* the audio-direct scripts write no row for the unit, which goes FAILED.
C5_FailureIsolated == []C5_State /\ [][C5_Step]_vars

C5_Witness ==
  /\ script = "tr" /\ ended = "complete"
  /\ 1 \in raised /\ HasSentinelRow(1)
  /\ NUnits = 2 /\ status[2] = "DONE"

\* C6: the artifact is the header followed by complete rows.
C6_WellFormedPrefix ==
  Len(output) > 0 =>
    /\ output[1] = HeaderLine
    /\ \A i \in 2..Len(output) :
         /\ output[i].type = "row"
         /\ Len(output[i].out) = (IF script = "ac" THEN 3 ELSE 1)

\* C7: when an interrupt has ended the run, no unit is left IN_FLIGHT: the unit
\* that was in flight has reached DONE or FAILED.
C7_InFlightFinishes ==
  (script \in {"ac", "tr", "wav"} /\ ended = "interrupted") => \A i \in DOMAIN status : status[i] # "IN_FLIGHT"

\* ------------------------------------------------------------------ skip
C8_Step ==
  (/\ script # "ext" /\ pc = "loop" /\ idx <= NUnits
   /\ UnitKey(idx) \in processed_keys
   /\ ended' = "none")
    => /\ status' = [status EXCEPT ![idx] = "SKIPPED"]
       /\ pc' = "loop" /\ idx' = idx + 1
       /\ output' = output /\ out_buf' = out_buf
       /\ processed_keys' = processed_keys
       /\ invoked' = invoked /\ appended' = appended

C8_Terminal ==
  \A i \in DOMAIN status :
    (status[i] = "SKIPPED" /\ runs' = runs) => status'[i] = "SKIPPED"

C8_State ==
  \A i \in DOMAIN status :
    status[i] = "SKIPPED" => (i \notin Range(invoked) /\ i \notin Range(appended))

\* C8: a unit whose key is in the processed key set goes from PENDING straight
\* to SKIPPED and stays there; the worker is not invoked for it and the step
\* changes neither the artifact nor the processed key set.
C8_SkipIsFrame == []C8_State /\ [][C8_Step /\ C8_Terminal]_vars

C8_Witness ==
  /\ runs = 2 /\ script = "wav"
  /\ \E i \in Units : status[i] = "SKIPPED"

\* ----------------------------------------------------------------- order
\* the table row a position of the loop stands for
TablePos(i) ==
  IF IsWav(script)
  THEN CHOOSE t \in 1..Len(table) :
         /\ WavFilename(table[t]) = files[i]
         /\ \A u \in 1..Len(table) : WavFilename(table[u]) = files[i] => t <= u
  ELSE i

\* C9 (as stated): the worker is invoked in the order of the segment table.
C9_TableOrder ==
  \A j, k \in 1..Len(invoked) :
    j < k => TablePos(invoked[j]) < TablePos(invoked[k])

\* C9 (amended): units are processed one at a time in the loop's iteration
\* order -- the table's order in the table-driven scripts, ascending file name
\* in the audio-direct scripts -- and the rows written in the run are in the
\* artifact in that same order.
C9_IterationOrder ==
  /\ Increasing(invoked)
  /\ Increasing(appended)
  /\ Range(appended) \subseteq Range(invoked)
  /\ IsWav(script) =>
       \A j, k \in 1..Len(files) : j < k => SeqLess(files[j], files[k])
  /\ Cardinality({ i \in DOMAIN status : status[i] = "IN_FLIGHT" }) <= 1
  /\ \A j \in 1..Len(appended) :
       /\ RunRow(j).type = "row"
       /\ RunRow(j).key = UnitKey(appended[j])

C9_Witness ==
  /\ script = "wav"
  /\ Len(appended) = 2
  /\ TablePos(appended[1]) > TablePos(appended[2])

\* ------------------------------------------------------ missing source audio
BadTimes(seg) == ~convert_time_to_ms(seg.start).ok \/ ~convert_time_to_ms(seg.end).ok

C10_Step ==
  (script = "ext" /\ pc = "fetch" /\ status'[idx] = "FAILED")
    => /\ output' = output /\ out_buf' = out_buf /\ appended' = appended
       /\ processed_keys' = processed_keys
       /\ ended' = "none" /\ pc' = "loop" /\ idx' = idx + 1

C10_State ==
  script = "ext" =>
    /\ processed_keys = {}
    /\ \A i \in DOMAIN status :
         /\ status[i] # "SKIPPED"
         /\ status[i] = "FAILED" => i \notin Range(appended)
    /\ ended = "complete" => \A i \in Units : status[i] \in {"DONE", "FAILED"}
    /\ ended = "crashed" => \E i \in 1..Len(table) : BadTimes(table[i])

\* C10: a failed fetch of the source audio writes no row, marks nothing as
\* processed (the extractor skips no unit in any run) and does not end the
\* run: the loop goes on with the next segment.
C10_FetchFailureIsolated == []C10_State /\ [][C10_Step]_vars

C10_Witness ==
  /\ script = "ext" /\ runs = 1 /\ pc = "fetch" /\ idx = 2
  /\ downloads = {} /\ status = <<"FAILED", "IN_FLIGHT">>
  /\ appended = <<>> /\ invoked = <<1>>

\* C11: a malformed timestamp is fatal only for its own row: a run of the
\* extractor that is not interrupted never ends in a crash, and when it has
\* ended every row of the table with well-formed timestamps has been taken
\* up (none is left PENDING).
C11_BadRowIsolated ==
  (script = "ext" /\ runs >= 1 /\ pc = "idle" /\ ended # "interrupted")
    => /\ ended = "complete"
       /\ \A i \in 1..Len(table) : ~BadTimes(table[i]) => status[i] # "PENDING"

\* ----------------------------------------- vocabulary of the match verdict
\* the label a text stands for: case, whitespace and hyphens are ignored and
\* the raw spelling anti-empathetic is the vocabulary label anti
CanonLabel(text) ==
  LET t == SelectSeq(Lower(text), LAMBDA c : ~IsSpace(c) /\ c # Dash)
  IN IF t = TxtAntiJoined THEN TxtAnti ELSE t

Vocabulary == {TxtEmpathetic, TxtNeutral, TxtAnti}

Recognized(text) == CanonLabel(text) \in Vocabulary

\* the three-way rule on two texts
Verdict(a, b) ==
  IF ~Recognized(a) \/ ~Recognized(b) THEN "miss"
  ELSE IF CanonLabel(a) = CanonLabel(b) THEN "hit"
  ELSE IF TxtNeutral \in {CanonLabel(a), CanonLabel(b)} THEN "near-miss"
  ELSE "miss"

\* the verdict the function of script `which` gives for (ground truth g, prediction p)
VerdictOf(which, g, p) ==
  IF which = "tr" THEN compare_match(g, p)
  ELSE IF which = "wavs" THEN compare_classification(p, g)
  ELSE compare_classification_gemini(p, g)

\* C12: for every pair of labels of the vocabulary, in any spelling, the
\* transcript and the Gemini comparison return hit iff the normalized labels
\* are equal, near-miss iff exactly one is neutral, and miss otherwise.
C12_ThreeWayVerdict ==
  (compared \in {"tr", "gemini"} /\ Recognized(ground_truth) /\ Recognized(prediction))
    => match = Verdict(ground_truth, prediction)

\* C13: in every variant an opposite-polarity pair (empathetic against anti /
\* anti-empathetic, in either order) gets the verdict miss.
C13_OppositeIsMiss ==
  (compared # "none"
     /\ {CanonLabel(ground_truth), CanonLabel(prediction)} = {TxtEmpathetic, TxtAnti})
    => match = "miss"

\* C14: the verdict does not depend on the spelling of either argument:
\* replacing the ground truth or the prediction by any other text that
\* stands for the same label (other case, hyphens, surrounding whitespace,
\* anti for anti-empathetic) gives the same verdict.
C14_SpellingInsensitive ==
  compared \in {"tr", "gemini"} =>
    \A t \in Texts :
      /\ CanonLabel(t) = CanonLabel(ground_truth)
            => VerdictOf(compared, t, prediction) = match
      /\ CanonLabel(t) = CanonLabel(prediction)
            => VerdictOf(compared, ground_truth, t) = match

\* C15: the verdict is symmetric in every variant: exchanging the ground
\* truth and the prediction gives the verdict that was returned.
C15_Symmetric ==
  compared # "none" => match = VerdictOf(compared, prediction, ground_truth)

C15_Witness ==
  /\ compared = "gemini" /\ match = "near-miss"
  /\ CanonLabel(ground_truth) = TxtNeutral /\ CanonLabel(prediction) = TxtEmpathetic

\* C16: a pair with at least one text outside the vocabulary gets the
\* verdict miss, also when the two texts are equal.
C16_UnrecognizedIsMiss ==
  (compared # "none" /\ (~Recognized(ground_truth) \/ ~Recognized(prediction)))
    => match = "miss"

\* ------------------------------------------- vocabulary of the evaluation
RECURSIVE SumSeq(_)
SumSeq(q) == IF q = <<>> THEN 0 ELSE q[1] + SumSeq(Tail(q))

\* the sum of the entries of the confusion matrix
CmTotal == SumSeq([i \in 1..Len(cm) |-> SumSeq(cm[i])])

\* the rating of row i is one the mapping rule speaks about: <= 2, == 3, >= 4 or not a number
InRule(i) ==
  df[i].rating.isna \/ df[i].rating.x10 <= 20 \/ df[i].rating.x10 = 30 \/ df[i].rating.x10 >= 40

\* anti = 1, neutral = 3, empathetic = 5, in tenths
Anchor(label) == IF label = TxtAnti THEN 10 ELSE IF label = TxtNeutral THEN 30 ELSE 50

Dist(a, b) == IF a >= b THEN a - b ELSE b - a

\* C17: a rating r <= 2 is predicted anti, r == 3 neutral, r >= 4 empathetic,
\* and a non-numeric or missing rating gets the explicit unknown value and
\* is counted: a frame whose ground truths are all labels of the report and
\* whose ratings are all covered by the rule has every row in the matrix.
C17_RatingToCategory ==
  step = "done" =>
    /\ \A i \in 1..Len(df) :
         LET r == df[i].rating
         IN /\ (~r.isna /\ r.x10 <= 20) => preds[i] = TxtAnti
            /\ (~r.isna /\ r.x10 = 30) => preds[i] = TxtNeutral
            /\ (~r.isna /\ r.x10 >= 40) => preds[i] = TxtEmpathetic
            /\ r.isna => preds[i] = TxtUnknown
    /\ (\A i \in 1..Len(df) : InRule(i) /\ truth[i] \in {TxtEmpathetic, TxtNeutral, TxtAnti})
         => CmTotal = Len(df)

\* C18: the entries of the confusion matrix sum to the number of rows of
\* the frame: no segment is left out of the matrix.
C18_MatrixTotal == step = "done" => CmTotal = Len(df)

\* C19: for a ground truth of the vocabulary (any case, surrounding
\* whitespace, or spelled anti-empathetic) and a numeric rating r, the ground
\* truth is mapped to its anchor and abs_error = |r - anchor|.
C19_AbsError ==
  step \in {"errors", "predicted", "done"} =>
    \A i \in 1..Len(df) :
      (Recognized(df[i].Category) /\ ~df[i].rating.isna)
        => /\ df[i].truth_numeric = Num(Anchor(CanonLabel(df[i].Category)))
           /\ df[i].rating_abs_error
                = Num(Dist(df[i].rating.x10, Anchor(CanonLabel(df[i].Category))))

\* ------------------------------------------- vocabulary of the time codec
\* a text of two colon-separated fields of digits, M:S
TwoField(text) ==
  /\ Len(SplitColon(text)) = 2
  /\ IsIntText(SplitColon(text)[1])
  /\ IsIntText(SplitColon(text)[2])

\* M:S as the formatter writes it: minutes without leading zeros, seconds in
\* two digits and below 60
Canonical(text) ==
  /\ TwoField(text)
  /\ LET m == SplitColon(text)[1]
         sec == SplitColon(text)[2]
     IN /\ (Len(m) = 1 \/ m[1] # 48)
        /\ Len(sec) = 2
        /\ IntOf(sec) < 60

\* C20 (as stated): parsing a well-formed M:S text and formatting the whole
\* seconds of the result as minutes and zero-padded seconds returns the text.
C20_RoundTrip == (codec = "formatted" /\ TwoField(timestr)) => formatted = timestr

\* C20 (amended): the round trip returns the text exactly when the text is
\* canonical; every other well-formed M:S text comes back as the canonical
\* text of the same duration.
C20_CanonicalRoundTrip ==
  (codec = "formatted" /\ TwoField(timestr))
    => /\ Canonical(formatted)
       /\ convert_time_to_ms(formatted).ms = start_ms
       /\ (formatted = timestr) <=> Canonical(timestr)

\* "5:07" has come back as "5:07"
C20_Witness ==
  /\ codec = "formatted"
  /\ timestr = <<53, 58, 48, 55>>
  /\ formatted = timestr

\* the colon-separated fields of the timestamp text
Fields == SplitColon(timestr)

\* the text splits into exactly 2 or 3 fields, each an integer
WellFormedTime ==
  /\ Len(Fields) \in {2, 3}
  /\ \A i \in 1..Len(Fields) : IsIntText(Fields[i])

\* C21: parse returns (60*M + S)*1000 for M:S and (3600*H + 60*M + S)*1000
\* for H:M:S, and fails, returning no value, for every text that does not
\* split into exactly 2 or 3 integer fields.
C21_ParseContract ==
  /\ codec \in {"parsed", "formatted"} =>
       /\ WellFormedTime
       /\ Len(Fields) = 2 =>
            start_ms = (60 * IntOf(Fields[1]) + IntOf(Fields[2])) * 1000
       /\ Len(Fields) = 3 =>
            start_ms = (3600 * IntOf(Fields[1]) + 60 * IntOf(Fields[2]) + IntOf(Fields[3])) * 1000
  /\ codec = "failed" => (~WellFormedTime /\ start_ms = 0)

\* "5:0:7" has been parsed as 5 h 0 min 7 s
C21_Witness ==
  /\ codec = "parsed"
  /\ timestr = <<53, 58, 48, 58, 55>>
  /\ start_ms = 18007000

\* C22: keys are never renormalized: the key the audio-direct script rebuilds
\* from the file name of a segment with well-formed timestamps is the
\* segment's own key in the table, string for string.
C22_KeyNotRenormalized ==
  IsWav(script) =>
    \A i \in 1..Len(files) :
      \A t \in 1..Len(table) :
        (WavFilename(table[t]) = files[i] /\ ~BadTimes(table[t]))
          => UnitKey(i) = KeyOf(table[t])

\* the keys of the segment table
TableKeys == { KeyOf(table[t]) : t \in 1..Len(table) }

\* C23: when a run of a resumable script has completed with no worker
\* failure, whatever runs were interrupted before it, the artifact holds
\* exactly one row for every key of the segment table and no row for any
\* other key (stated for tables whose timestamps are all well-formed).
C23_OneRowPerKey ==
  (/\ script \in {"ac", "tr", "wav"} /\ pc = "idle" /\ ended = "complete" /\ raised = {}
   /\ \A t \in 1..Len(table) : ~BadTimes(table[t]))
    => /\ { DataRows(output)[j].key : j \in 1..Len(DataRows(output)) } = TableKeys
       /\ \A j, k \in 1..Len(DataRows(output)) :
            j # k => DataRows(output)[j].key # DataRows(output)[k].key

\* C24: a row is appended, flushed and its key added before the next key
\* is examined, so at every boundary of the per-segment loop the processed
\* key set is the set of keys of the rows of the artifact on disk.
C24_KeysMatchDisk ==
  (script \in {"ac", "tr", "wav"} /\ pc = "loop")
    => processed_keys = { DataRows(output)[j].key : j \in 1..Len(DataRows(output)) }

\* C25: parsing an answer yields one of the three labels or NO_RESPONSE; an
\* answer that contains the label anti-empathetic is parsed as
\* anti-empathetic; and the result does not depend on the order in which the
\* label set is visited.
C25_ParseAnswer ==
  parsing = "done" =>
    /\ classification \in {TxtEmpathetic, TxtNeutral, TxtAntiHyphen, TxtNoResponse}
    /\ Contains(Lower(response), TxtAntiHyphen) => classification = TxtAntiHyphen
    /\ \A order \in SetOrders : parse_answer(response, order) = classification

C27_OneHeader ==
  (script \in {"ac", "tr", "wav"} /\ pc = "idle" /\ Len(output) > 0)
    => /\ output[1] = HeaderLine
       /\ \A i \in 2..Len(output) : output[i] # HeaderLine
       /\ LoadProcessed(output).ok
       /\ LoadProcessed(output).keys
            = { DataRows(output)[j].key : j \in 1..Len(DataRows(output)) }
====
